---- MODULE Spec2Model ----
(***************************************************************************)
(* A model of marvel_stats.py: the one-shot report generator that loads a  *)
(* GraphML network, simplifies it to a simple undirected graph, prints     *)
(* size/density/centrality rankings and optionally writes two PNG plots.   *)
(*                                                                         *)
(* Node identifiers are Python strings; they are modelled as sequences of  *)
(* code points so that their ordering is the lexicographic one Python      *)
(* uses.                                                                   *)
(***************************************************************************)
EXTENDS Integers, Sequences, FiniteSets, TLC

VARIABLES
    argv,        \* the parsed command line as given (never changed)
    args_k,      \* args.k, the one option main() reassigns (line 116)
    fileExists,  \* whether the input path exists on disk
    fileGraph,   \* the graph serialised in the input file
    pc,          \* position of main()
    Graw,        \* the raw graph returned by nx.read_graphml
    G,           \* the simplified graph being built / used
    idx,         \* number of raw edges the simplification loop has consumed
    degree,      \* dict(G.degree()) (also the mapping handed to top_n)
    ranked,      \* the list most recently returned by top_n / the label sort
    out,         \* standard output, one record per printed block
    err,         \* standard error
    status,      \* process exit status (-1 while running)
    files,       \* image files written so far
    layouts,     \* number of spring_layout computations performed
    core,        \* the k-core subgraph used for the second plot
    eigFailed,   \* whether eigenvector_centrality raised NetworkXException
    events       \* the steps completed so far, in order

vars == <<argv, args_k, fileExists, fileGraph, pc, Graw, G, idx, degree,
          ranked, out, err, status, files, layouts, core, eigFailed, events>>

----------------------------------------------------------------------------
(* Bounds of the model *)

MaxRawEdges == 3
MaxRunEdges == 3
MaxScore == 2
MaxLen == 4
MaxTop == 2
MaxK == 3
MaxLabelTop == 1

----------------------------------------------------------------------------
(* Identifiers and attribute mappings *)

A == <<65>>
B == <<66>>
C == <<67>>
D == <<68>>

NodeOrder == <<A, B, C>>

Min(a, b) == IF a < b THEN a ELSE b
Max(a, b) == IF a < b THEN b ELSE a

\* Python's str.__lt__: lexicographic on code points, a proper prefix first.
RECURSIVE LexLess(_, _)
LexLess(s, t) ==
    IF s = <<>> THEN t # <<>>
    ELSE IF t = <<>> THEN FALSE
    ELSE IF Head(s) # Head(t) THEN Head(s) < Head(t)
    ELSE LexLess(Tail(s), Tail(t))

\* An attribute mapping is a record over every key in use; Absent marks a
\* key the mapping does not hold, any other value is the key's value.
Absent == 0

AttrKeys == {"label", "weight", "color"}

Keys(d) == {k \in AttrKeys : d[k] # Absent}

EmptyDict == [label |-> Absent, weight |-> Absent, color |-> Absent]

\* dict.update(other): keys of other overwrite, all other keys are kept.
DictUpdate(old, new) ==
    [k \in AttrKeys |-> IF new[k] # Absent THEN new[k] ELSE old[k]]

W1 == [label |-> Absent, weight |-> 1, color |-> Absent]
W2C1 == [label |-> Absent, weight |-> 2, color |-> 1]
EdgeDicts == {W1, W2C1}

\* the attributes of the j-th node of a file
NodeAttr(j) == [label |-> j, weight |-> Absent, color |-> Absent]

----------------------------------------------------------------------------
(* networkx.Graph, as far as main() uses it.  nodes and edges are kept in  *)
(* insertion order, which is the iteration order of G.nodes() / G.edges(). *)

EmptyGraph == [nodes |-> <<>>, edges |-> <<>>]

NodeIds(g) == {g.nodes[j].id : j \in DOMAIN g.nodes}

NodeIndex(g, n) == CHOOSE j \in DOMAIN g.nodes : g.nodes[j].id = n

\* Graph.add_node / one item of add_nodes_from: update if present, else insert.
AddNode(g, n, attr) ==
    IF n \in NodeIds(g)
    THEN [g EXCEPT !.nodes[NodeIndex(g, n)].attr = DictUpdate(@, attr)]
    ELSE [g EXCEPT !.nodes = Append(@, [id |-> n, attr |-> attr])]

RECURSIVE AddNodesFromMutNoData(_, _)
AddNodesFromMutNoData(g, ns) ==
    IF ns = <<>> THEN g
    ELSE AddNodesFromMutNoData(AddNode(g, Head(ns).id, EmptyDict), Tail(ns))

\* G.add_nodes_from(Graw.nodes(data=True))
RECURSIVE AddNodesFrom(_, _)
AddNodesFrom(g, ns) ==
    IF ns = <<>> THEN g
    ELSE AddNodesFrom(AddNode(g, Head(ns).id, Head(ns).attr), Tail(ns))

Joins(e, u, v) == (e.u = u /\ e.v = v) \/ (e.u = v /\ e.v = u)

EdgeSlots(g, u, v) == {j \in DOMAIN g.edges : Joins(g.edges[j], u, v)}

HasEdge(g, u, v) == EdgeSlots(g, u, v) # {}

AddEdgeMutReplace(g, u, v, data) ==
    LET g1 == AddNode(AddNode(g, u, EmptyDict), v, EmptyDict)
    IN  IF HasEdge(g1, u, v)
        THEN LET j == CHOOSE j \in EdgeSlots(g1, u, v) : TRUE
             IN  [g1 EXCEPT !.edges[j].data = data]
        ELSE [g1 EXCEPT !.edges = Append(@, [u |-> u, v |-> v, data |-> data])]

\* Graph.add_edge(u, v, **data): missing endpoints are created; the edge's
\* dict is adj[u].get(v, {}) updated with data, stored for both directions.
AddEdge(g, u, v, data) ==
    LET g1 == AddNode(AddNode(g, u, EmptyDict), v, EmptyDict)
    IN  IF HasEdge(g1, u, v)
        THEN LET j == CHOOSE j \in EdgeSlots(g1, u, v) : TRUE
             IN  [g1 EXCEPT !.edges[j].data = DictUpdate(@, data)]
        ELSE [g1 EXCEPT !.edges = Append(@, [u |-> u, v |-> v, data |-> data])]

KeepEdgeMutAll(u, v) == TRUE

\* the filter of the simplification loop: if u != v
KeepEdge(u, v) == u # v

\* G.degree(n): a self-loop counts twice.
Degree(g, n) ==
    Cardinality({j \in DOMAIN g.edges : g.edges[j].u = n})
    + Cardinality({j \in DOMAIN g.edges : g.edges[j].v = n})

SelfLoops(g) == {j \in DOMAIN g.edges : g.edges[j].u = g.edges[j].v}

\* nx.is_connected(G) for a non-null graph: every node reachable from the first.
RECURSIVE Reach(_, _)
Reach(g, S) ==
    LET nbrs == {n \in NodeIds(g) : \E m \in S : HasEdge(g, m, n)}
    IN  IF nbrs \subseteq S THEN S ELSE Reach(g, S \cup nbrs)

IsConnected(g) == Reach(g, {g.nodes[1].id}) = NodeIds(g)

\* dict(G.degree()): one item per node, in node order.
DegreeDict(g) ==
    [j \in DOMAIN g.nodes |-> [id |-> g.nodes[j].id, val |-> Degree(g, g.nodes[j].id)]]

\* G.subgraph(S).copy()
Subgraph(g, S) ==
    [nodes |-> SelectSeq(g.nodes, LAMBDA x : x.id \in S),
     edges |-> SelectSeq(g.edges, LAMBDA e : e.u \in S /\ e.v \in S)]

\* The k-core by definition: repeatedly delete nodes of degree < k.
RECURSIVE KCorePrune(_, _, _)
KCorePrune(g, S, k) ==
    LET low == {n \in S : Degree(Subgraph(g, S), n) < k}
    IN  IF low = {} THEN S ELSE KCorePrune(g, S \ low, k)

\* nx.core_number(G)[n]: the largest k whose k-core holds n.
CoreNumber(g, n) ==
    LET ks == {k \in 0..Len(g.edges) : n \in KCorePrune(g, NodeIds(g), k)}
    IN  CHOOSE k \in ks : \A h \in ks : h <= k

MaxCoreNumber(g) ==
    LET cs == {CoreNumber(g, n) : n \in NodeIds(g)}
    IN  CHOOSE k \in cs : \A h \in cs : h <= k

\* nx.core_number refuses graphs with self-loops; nx.k_core calls it.
CoreNumberRaises(g) == SelfLoops(g) # {}

\* nx.k_core(G, k): the subgraph of the nodes whose core number is >= k
\* (empty, and no exception, when k exceeds every core number).
KCoreGraph(g, k) == Subgraph(g, {n \in NodeIds(g) : CoreNumber(g, n) >= k})

----------------------------------------------------------------------------
(* Ranking: top_n and the inline label sorts *)

KeyLessMutScoreOnly(x, y) == (0 - x.val) < (0 - y.val)

\* tuple comparison of the sort key (-x[1], x[0])
KeyLess(x, y) ==
    \/ (0 - x.val) < (0 - y.val)
    \/ (x.val = y.val /\ LexLess(x.id, y.id))

\* position after every element that is not greater than x (sorted is stable)
RECURSIVE InsertSorted(_, _)
InsertSorted(x, s) ==
    IF s = <<>> THEN <<x>>
    ELSE IF KeyLess(x, Head(s)) THEN <<x>> \o s
    ELSE <<Head(s)>> \o InsertSorted(x, Tail(s))

\* sorted(d.items(), key=lambda x: (-x[1], x[0]))
RECURSIVE SortedItems(_)
SortedItems(d) ==
    IF d = <<>> THEN <<>>
    ELSE InsertSorted(d[Len(d)], SortedItems(SubSeq(d, 1, Len(d) - 1)))

\* Python's s[:k]: a negative k counts from the end.
Slice(s, k) ==
    LET stop == IF k < 0 THEN Max(Len(s) + k, 0) ELSE Min(k, Len(s))
    IN  SubSeq(s, 1, stop)

top_n(d, k) == Slice(SortedItems(d), k)

\* lines 101-102 / 125-126: the labelled nodes, none unless label_top > 0
LabelTop(d, n) == IF n > 0 THEN Slice(SortedItems(d), n) ELSE <<>>

----------------------------------------------------------------------------
(* Paths and file names *)

Cwd == <<"home", "user">>

\* Path.resolve(): an absolute path stays, a relative one is joined to cwd.
Resolve(p) ==
    IF p.abs THEN p ELSE [abs |-> TRUE, parts |-> Cwd \o p.parts]

DigitChars == <<"0", "1", "2", "3", "4", "5", "6", "7", "8", "9">>

RECURSIVE Digits(_)
Digits(n) ==
    IF n < 10 THEN <<DigitChars[n + 1]>>
    ELSE Digits(n \div 10) \o <<DigitChars[(n % 10) + 1]>>

\* str(int) as an f-string formats it
IntStr(n) == IF n < 0 THEN <<"-">> \o Digits(0 - n) ELSE Digits(n)

\* f"{args.prefix}_full.png"
FullName(prefix) == prefix \o <<"_full.png">>

CoreNameMutNoK(prefix, k) == prefix \o <<"_kcore.png">>

\* f"{args.prefix}_kcore{args.k}.png"
CoreName(prefix, k) == prefix \o <<"_kcore">> \o IntStr(k) \o <<".png">>

----------------------------------------------------------------------------
(* Inputs *)

RelPath == [abs |-> FALSE, parts |-> <<"marvel-network.graphml">>]
AbsPath == [abs |-> TRUE, parts |-> <<"data", "marvel-network.graphml">>]

Prefix == <<"marvel_network">>

\* the nodes of a GraphML file with n nodes, each with its attributes
RawNodes(n) == [j \in 1..n |-> [id |-> NodeOrder[j], attr |-> NodeAttr(j)]]

\* the sequences over S of length at most n
SeqsUpTo(S, n) == UNION {[1..m -> S] : m \in 0..n}

\* every raw edge a parsed file can hold on its first n nodes: either
\* direction, self-loops, any of the attribute mappings
RawEdgesOn(n, dicts) ==
    {[u |-> NodeOrder[a], v |-> NodeOrder[b], data |-> dd] :
        a \in 1..n, b \in 1..n, dd \in dicts}

\* edge lists for whole runs, drawn in order from a fixed list that holds a
\* triangle, a reverse duplicate and a self-loop
RunEdgeList ==
    <<[u |-> A, v |-> B, data |-> W1], [u |-> B, v |-> C, data |-> EmptyDict],
      [u |-> A, v |-> C, data |-> EmptyDict], [u |-> B, v |-> A, data |-> EmptyDict],
      [u |-> A, v |-> A, data |-> EmptyDict]>>

RunEdgeSets(n) ==
    {T \in SUBSET (DOMAIN RunEdgeList) :
        /\ Cardinality(T) <= MaxRunEdges
        /\ \A j \in T : {RunEdgeList[j].u, RunEdgeList[j].v}
                           \subseteq {NodeOrder[i] : i \in 1..n}}

Pick(T) == SelectSeq([j \in DOMAIN RunEdgeList |-> <<j, RunEdgeList[j]>>],
                     LAMBDA p : p[1] \in T)

PickEdges(T) == [j \in DOMAIN Pick(T) |-> Pick(T)[j][2]]

\* results of the library's centrality algorithms, which the model does not
\* compute: any of two scores for any node (ties and every order occur)
LibValues == {0, 1}

LibScores(g) ==
    {[j \in DOMAIN g.nodes |-> [id |-> g.nodes[j].id, val |-> f[j]]] :
        f \in [DOMAIN g.nodes -> LibValues]}

\* nx.degree_centrality(G): degree / (N - 1), or 1 for every node when N <= 1.
\* val is the numerator over the common denominator N - 1.
DegreeCentrality(g) ==
    [j \in DOMAIN g.nodes |->
        [id |-> g.nodes[j].id,
         val |-> IF Len(g.nodes) <= 1 THEN 1 ELSE Degree(g, g.nodes[j].id)]]

\* nx.density(G)
Density(g) ==
    LET n == Len(g.nodes)
        m == Len(g.edges)
    IN  IF m = 0 \/ n <= 1 THEN [num |-> 0, den |-> 1]
        ELSE [num |-> 2 * m, den |-> n * (n - 1)]

----------------------------------------------------------------------------
(* Output *)

Line(l, n, den, name) == [line |-> l, n |-> n, den |-> den, name |-> name]

NoName == <<>>

Printed(l) == \E j \in DOMAIN out : out[j].line = l

Running == pc \notin {"done", "exited", "aborted"}

\* an exception nobody catches: traceback on stderr, exit status 1
Abort(what) ==
    /\ pc' = "aborted"
    /\ status' = 1
    /\ err' = Append(err, [tag |-> "Traceback", what |-> what, path |-> AbsPath])

----------------------------------------------------------------------------
(* main(), one action per step *)

CheckExistsMutNoExit ==
    /\ pc = "check"
    /\ events' = Append(events, "exists")
    /\ pc' = "load"
    /\ UNCHANGED <<argv, args_k, fileExists, fileGraph, Graw, G, idx, degree,
                   ranked, out, err, status, files, layouts, core, eigFailed>>

\* lines 34-36: the existence check and sys.exit(message)
CheckExists ==
    /\ pc = "check"
    /\ events' = Append(events, "exists")
    /\ IF fileExists
       THEN /\ pc' = "load"
            /\ UNCHANGED <<err, status>>
       ELSE /\ pc' = "exited"
            /\ status' = 1
            /\ err' = Append(err, [tag |-> "ERROR: GraphML not found at",
                                   what |-> "sys.exit",
                                   path |-> Resolve(argv.graphml)])
    /\ UNCHANGED <<argv, args_k, fileExists, fileGraph, Graw, G, idx, degree,
                   ranked, out, files, layouts, core, eigFailed>>

\* line 39: nx.read_graphml; a malformed or vanished file raises
Load ==
    /\ pc = "load"
    /\ \/ /\ Graw' = fileGraph
          /\ pc' = "build"
          /\ events' = Append(events, "load")
          /\ UNCHANGED <<err, status>>
       \/ /\ Abort("read_graphml")
          /\ UNCHANGED <<Graw, events>>
    /\ UNCHANGED <<argv, args_k, fileExists, fileGraph, G, idx, degree, ranked,
                   out, files, layouts, core, eigFailed>>

\* lines 40-41
AddNodes ==
    /\ pc = "build"
    /\ G' = AddNodesFrom(EmptyGraph, Graw.nodes)
    /\ idx' = 0
    /\ pc' = "simplify"
    /\ UNCHANGED <<argv, args_k, fileExists, fileGraph, Graw, degree, ranked,
                   out, err, status, files, layouts, core, eigFailed, events>>

\* lines 42-44: one iteration of the loop over Graw.edges(data=True)
SimplifyEdge ==
    /\ pc = "simplify"
    /\ idx < Len(Graw.edges)
    /\ LET e == Graw.edges[idx + 1]
       IN  G' = IF KeepEdge(e.u, e.v) THEN AddEdge(G, e.u, e.v, e.data) ELSE G
    /\ idx' = idx + 1
    /\ UNCHANGED <<argv, args_k, fileExists, fileGraph, pc, Graw, degree, ranked,
                   out, err, status, files, layouts, core, eigFailed, events>>

\* the loop's iterator is exhausted
SimplifyDone ==
    /\ pc = "simplify"
    /\ idx = Len(Graw.edges)
    /\ pc' = "counts"
    /\ events' = Append(events, "simplify")
    /\ UNCHANGED <<argv, args_k, fileExists, fileGraph, Graw, G, idx, degree,
                   ranked, out, err, status, files, layouts, core, eigFailed>>

\* lines 46-48
Counts ==
    /\ pc = "counts"
    /\ out' = out \o <<Line("=== Basic Statistics ===", 0, 1, NoName),
                       Line("Nodes", Len(G.nodes), 1, NoName),
                       Line("Edges", Len(G.edges), 1, NoName)>>
    /\ pc' = "density"
    /\ events' = Append(events, "counts")
    /\ UNCHANGED <<argv, args_k, fileExists, fileGraph, Graw, G, idx, degree,
                   ranked, err, status, files, layouts, core, eigFailed>>

\* line 49
DensityStep ==
    /\ pc = "density"
    /\ out' = Append(out, Line("Density", Density(G).num, Density(G).den, NoName))
    /\ pc' = "connected"
    /\ events' = Append(events, "density")
    /\ UNCHANGED <<argv, args_k, fileExists, fileGraph, Graw, G, idx, degree,
                   ranked, err, status, files, layouts, core, eigFailed>>

\* line 50: nx.is_connected raises NetworkXPointlessConcept on the null graph
Connected ==
    /\ pc = "connected"
    /\ IF G.nodes = <<>>
       THEN /\ Abort("is_connected")
            /\ UNCHANGED <<out, events>>
       ELSE /\ out' = Append(out, Line("Connected", IF IsConnected(G) THEN 1 ELSE 0,
                                       1, NoName))
            /\ pc' = "degree"
            /\ events' = Append(events, "connected")
            /\ UNCHANGED <<err, status>>
    /\ UNCHANGED <<argv, args_k, fileExists, fileGraph, Graw, G, idx, degree,
                   ranked, files, layouts, core, eigFailed>>

\* a ranking section: top_n of the mapping, a header and one row per entry
Section(title, d, next, step) ==
    /\ ranked' = top_n(d, argv.top)
    /\ out' = Append(out, Line(title, Len(ranked'), 1, NoName))
    /\ pc' = next
    /\ events' = Append(events, step)

\* lines 53-57
DegreeStep ==
    /\ pc = "degree"
    /\ degree' = DegreeDict(G)
    /\ Section("Top by Degree", degree', "deg_cent", "degree")
    /\ UNCHANGED <<argv, args_k, fileExists, fileGraph, Graw, G, idx, err, status,
                   files, layouts, core, eigFailed>>

\* lines 60-64
DegCent ==
    /\ pc = "deg_cent"
    /\ Section("Top Degree Centrality", DegreeCentrality(G), "closeness", "deg_cent")
    /\ UNCHANGED <<argv, args_k, fileExists, fileGraph, Graw, G, idx, degree, err,
                   status, files, layouts, core, eigFailed>>

\* lines 66-69
Closeness ==
    /\ pc = "closeness"
    /\ \E d \in LibScores(G) :
          Section("Top Closeness Centrality", d, "betweenness", "closeness")
    /\ UNCHANGED <<argv, args_k, fileExists, fileGraph, Graw, G, idx, degree, err,
                   status, files, layouts, core, eigFailed>>

\* lines 71-74
Betweenness ==
    /\ pc = "betweenness"
    /\ \E d \in LibScores(G) :
          Section("Top Betweenness Centrality", d, "pagerank", "betweenness")
    /\ UNCHANGED <<argv, args_k, fileExists, fileGraph, Graw, G, idx, degree, err,
                   status, files, layouts, core, eigFailed>>

\* lines 76-79: the power iteration may raise PowerIterationFailedConvergence,
\* which nothing catches
PageRank ==
    /\ pc = "pagerank"
    /\ \/ /\ \E d \in LibScores(G) :
                Section("Top PageRank", d, "eigenvector", "pagerank")
          /\ UNCHANGED <<err, status>>
       \/ /\ Abort("pagerank")
          /\ UNCHANGED <<ranked, out, events>>
    /\ UNCHANGED <<argv, args_k, fileExists, fileGraph, Graw, G, idx, degree,
                   files, layouts, core, eigFailed>>

AfterEigenvectorMutNoLayout == IF argv.plot THEN "full" ELSE "done"

\* line 90: the plots follow only under --plot; otherwise main() returns
AfterEigenvector == IF argv.plot THEN "layout" ELSE "done"

EigenvectorHandlerMutFatal ==
    /\ Abort("eigenvector_centrality")
    /\ UNCHANGED <<ranked, out, events>>

\* lines 87-88: except nx.NetworkXException -> the skip notice
EigenvectorHandler ==
    /\ out' = Append(out, Line("[Eigenvector centrality skipped]", 0, 1, NoName))
    /\ events' = Append(events, "eigenvector")
    /\ pc' = AfterEigenvector
    /\ status' = IF argv.plot THEN status ELSE 0
    /\ UNCHANGED <<ranked, err>>

\* lines 82-88: every failure of nx.eigenvector_centrality is a
\* NetworkXException (non-convergence, null graph, bad start vector)
Eigenvector ==
    /\ pc = "eigenvector"
    /\ \/ /\ \E d \in LibScores(G) :
                Section("Top Eigenvector Centrality", d, AfterEigenvector, "eigenvector")
          /\ status' = IF argv.plot THEN status ELSE 0
          /\ UNCHANGED <<err, eigFailed>>
       \/ /\ eigFailed' = TRUE
          /\ EigenvectorHandler
    /\ UNCHANGED <<argv, args_k, fileExists, fileGraph, Graw, G, idx, degree,
                   files, layouts, core>>

\* lines 90-94: import matplotlib (may be missing) and the one spring layout
Layout ==
    /\ pc = "layout"
    /\ \/ /\ layouts' = layouts + 1
          /\ pc' = "full"
          /\ events' = Append(events, "layout")
          /\ UNCHANGED <<err, status>>
       \/ /\ Abort("import matplotlib")
          /\ UNCHANGED <<layouts, events>>
    /\ UNCHANGED <<argv, args_k, fileExists, fileGraph, Graw, G, idx, degree,
                   ranked, out, files, core, eigFailed>>

\* lines 96-109: draw, label, save and report the full network; a failed
\* savefig may or may not leave a file behind
PlotFull ==
    /\ pc = "full"
    /\ ranked' = LabelTop(degree, argv.label_top)
    /\ \/ /\ files' = files \cup {FullName(argv.prefix)}
          /\ out' = Append(out, Line("Wrote", 0, 1, FullName(argv.prefix)))
          /\ pc' = "kcore"
          /\ events' = Append(events, "full")
          /\ UNCHANGED <<err, status>>
       \/ /\ Abort("savefig full")
          /\ files' \in {files, files \cup {FullName(argv.prefix)}}
          /\ UNCHANGED <<out, events>>
    /\ UNCHANGED <<argv, args_k, fileExists, fileGraph, Graw, G, idx, degree,
                   layouts, core, eigFailed>>

\* lines 111-118.  nx.k_core raises NetworkXError only through
\* nx.core_number, i.e. only for a graph with self-loops; the handler then
\* calls nx.core_number itself (line 115), which raises again, uncaught.
\* Otherwise nx.k_core returns, whatever k is, and args.k stays as given.
CoreStep ==
    IF CoreNumberRaises(G)
    THEN /\ Abort("core_number")
         /\ UNCHANGED <<core, ranked, files, out, events>>
    ELSE /\ core' = KCoreGraph(G, args_k)
         /\ ranked' = LabelTop(DegreeDict(core'), argv.label_top)
         /\ \/ /\ files' = files \cup {CoreName(argv.prefix, args_k)}
               /\ out' = Append(out, Line("Wrote", args_k, 1,
                                          CoreName(argv.prefix, args_k)))
               /\ pc' = "done"
               /\ status' = 0
               /\ events' = Append(events, "kcore")
               /\ UNCHANGED err
            \/ /\ Abort("savefig kcore")
               /\ files' \in {files, files \cup {CoreName(argv.prefix, args_k)}}
               /\ UNCHANGED <<out, events>>

\* lines 111-133: extract, draw, label, save and report the k-core
PlotCore ==
    /\ pc = "kcore"
    /\ CoreStep
    /\ UNCHANGED <<argv, args_k, fileExists, fileGraph, Graw, G, idx, degree,
                   layouts, eigFailed>>

\* top_n alone, on a given mapping and count
RankTop ==
    /\ pc = "rank"
    /\ ranked' = top_n(degree, argv.top)
    /\ pc' = "ranked"
    /\ UNCHANGED <<argv, args_k, fileExists, fileGraph, Graw, G, idx, degree, out,
                   err, status, files, layouts, core, eigFailed, events>>

\* the label sort alone (lines 101-102)
RankLabels ==
    /\ pc = "rank"
    /\ ranked' = LabelTop(degree, argv.label_top)
    /\ pc' = "labelled"
    /\ UNCHANGED <<argv, args_k, fileExists, fileGraph, Graw, G, idx, degree, out,
                   err, status, files, layouts, core, eigFailed, events>>

----------------------------------------------------------------------------
(* Specifications *)

Args(path, top, plot, k, label_top) ==
    [graphml |-> path, top |-> top, plot |-> plot, k |-> k, seed |-> 42,
     prefix |-> Prefix, label_top |-> label_top]

Fresh ==
    /\ args_k = argv.k
    /\ Graw = EmptyGraph
    /\ G = EmptyGraph
    /\ idx = 0
    /\ ranked = <<>>
    /\ out = <<>>
    /\ err = <<>>
    /\ status = -1
    /\ files = {}
    /\ layouts = 0
    /\ core = EmptyGraph
    /\ eigFailed = FALSE
    /\ events = <<>>

\* whole runs: any command line over the bounded options (the plot options
\* keep their defaults when --plot is absent), the file present or not
Init ==
    /\ \E path \in {RelPath, AbsPath}, top \in -1..MaxTop, plot \in BOOLEAN,
          k \in 1..MaxK, label_top \in 0..MaxLabelTop :
          /\ ~plot => (k = MaxK /\ label_top = 0)
          /\ argv = Args(path, top, plot, k, label_top)
    /\ fileExists \in BOOLEAN
    /\ \E n \in 0..Len(NodeOrder) : \E T \in RunEdgeSets(n) :
          /\ ~fileExists => (n = 0 /\ T = {})
          /\ fileGraph = [nodes |-> RawNodes(n), edges |-> PickEdges(T)]
    /\ pc = "check"
    /\ degree = <<>>
    /\ Fresh

Next ==
    \/ CheckExists \/ Load \/ AddNodes \/ SimplifyEdge \/ SimplifyDone
    \/ Counts \/ DensityStep \/ Connected \/ DegreeStep \/ DegCent
    \/ Closeness \/ Betweenness \/ PageRank \/ Eigenvector
    \/ Layout \/ PlotFull \/ PlotCore

Spec == Init /\ [][Next]_vars

\* the simplification on any raw graph
InitSimplify ==
    /\ argv = Args(AbsPath, 5, FALSE, 20, 0)
    /\ fileExists = TRUE
    /\ \E n \in 0..Len(NodeOrder) :
          \E es \in SeqsUpTo(RawEdgesOn(n, EdgeDicts), MaxRawEdges) :
             fileGraph = [nodes |-> RawNodes(n), edges |-> es]
    /\ pc = "load"
    /\ degree = <<>>
    /\ Fresh

NextSimplify == Load \/ AddNodes \/ SimplifyEdge \/ SimplifyDone

SpecSimplify == InitSimplify /\ [][NextSimplify]_vars

AB == <<65, 66>>

RankIds == {A, B, C, D, AB}

\* score mappings: distinct identifiers in any insertion order, any scores
ScoreMappings ==
    {d \in SeqsUpTo([id : RankIds, val : 1..MaxScore], MaxLen) :
        \A i, j \in DOMAIN d : i # j => d[i].id # d[j].id}

InitRank ==
    /\ \E k \in -1..MaxTop : argv = Args(AbsPath, k, TRUE, 20, k)
    /\ fileExists = TRUE
    /\ fileGraph = EmptyGraph
    /\ pc = "rank"
    /\ degree \in ScoreMappings
    /\ Fresh

NextRank == RankTop \/ RankLabels

SpecRank == InitRank /\ [][NextRank]_vars

----------------------------------------------------------------------------
(* Properties of the simplification (checked under SpecSimplify) *)

Simplified == pc \notin {"check", "load", "build", "simplify", "exited", "aborted", "rank",
                         "ranked", "labelled"}

\* the raw edges that join u and v, in either direction
RawSlots(u, v) == {j \in DOMAIN Graw.edges : Joins(Graw.edges[j], u, v)}

RawIds == {Graw.nodes[j].id : j \in DOMAIN Graw.nodes}

LastOf(S) == CHOOSE j \in S : \A h \in S : h <= j

\* C1: at every step of the simplification loop and after it, G has no edge
\* from a node to itself and at most one edge per unordered pair of nodes.
C1_SimpleGraph ==
    /\ \A j \in DOMAIN G.edges : G.edges[j].u # G.edges[j].v
    /\ \A i, j \in DOMAIN G.edges :
          i # j => ~Joins(G.edges[i], G.edges[j].u, G.edges[j].v)

\* a finished simplification of a raw graph with a self-loop, a parallel
\* edge and a reverse-direction duplicate
C1_Witness ==
    /\ pc = "counts"
    /\ \E j \in DOMAIN Graw.edges : Graw.edges[j].u = Graw.edges[j].v
    /\ \E i, j \in DOMAIN Graw.edges :
          /\ i < j
          /\ Graw.edges[i].u # Graw.edges[i].v
          /\ Graw.edges[j].u = Graw.edges[i].v
          /\ Graw.edges[j].v = Graw.edges[i].u
    /\ Len(G.edges) = 1

\* C2: after the simplification G has exactly the raw nodes, each with its
\* raw attribute mapping, and joins two distinct nodes exactly when some raw
\* edge joins them in either direction.
C2_NothingLostOrInvented ==
    Simplified =>
        /\ {<<G.nodes[j].id, G.nodes[j].attr>> : j \in DOMAIN G.nodes}
              = {<<Graw.nodes[j].id, Graw.nodes[j].attr>> : j \in DOMAIN Graw.nodes}
        /\ Len(G.nodes) = Len(Graw.nodes)
        /\ \A j \in DOMAIN G.edges : {G.edges[j].u, G.edges[j].v} \subseteq RawIds
        /\ \A u, v \in RawIds :
              u # v => (HasEdge(G, u, v) <=> RawSlots(u, v) # {})

\* three attributed nodes, one pair joined in the raw graph, one pair not,
\* and a self-loop that is dropped
C2_Witness ==
    /\ pc = "counts"
    /\ Len(Graw.nodes) = 3
    /\ RawSlots(A, B) # {}
    /\ RawSlots(B, C) = {}
    /\ RawSlots(C, C) # {}
    /\ HasEdge(G, A, B)
    /\ ~HasEdge(G, B, C)

MultiPairs ==
    {p \in RawIds \X RawIds : p[1] # p[2] /\ Cardinality(RawSlots(p[1], p[2])) > 1}

EdgeData(u, v) == G.edges[CHOOSE j \in EdgeSlots(G, u, v) : TRUE].data

\* C3 as stated: a pair joined by several raw edges ends with exactly the
\* attribute mapping of the last of them, nothing of the earlier ones.
C3_LastEdgeOnly ==
    Simplified =>
        \A p \in MultiPairs :
            /\ HasEdge(G, p[1], p[2])
            /\ EdgeData(p[1], p[2]) = Graw.edges[LastOf(RawSlots(p[1], p[2]))].data

\* C3 amended: a pair joined by several raw edges ends with one edge whose
\* mapping holds every key any of them holds, each key with the value of
\* the last raw edge of the pair that holds it.
C3_MergedLastWinsPerKey ==
    Simplified =>
        \A p \in MultiPairs :
            /\ Cardinality(EdgeSlots(G, p[1], p[2])) = 1
            /\ \A k \in AttrKeys :
                  LET having == {j \in RawSlots(p[1], p[2]) : k \in Keys(Graw.edges[j].data)}
                  IN  IF having = {}
                      THEN k \notin Keys(EdgeData(p[1], p[2]))
                      ELSE EdgeData(p[1], p[2])[k] = Graw.edges[LastOf(having)].data[k]

\* a pair joined first with {weight: 2, color: 1}, then in the other
\* direction with {weight: 1}: weight is overwritten, color survives
C3_Witness ==
    /\ pc = "counts"
    /\ Len(Graw.edges) >= 2
    /\ Graw.edges[1] = [u |-> A, v |-> B, data |-> W2C1]
    /\ Graw.edges[2] = [u |-> B, v |-> A, data |-> W1]
    /\ RawSlots(A, B) = {1, 2}
    /\ EdgeData(A, B) = [label |-> Absent, weight |-> 1, color |-> 1]

----------------------------------------------------------------------------
(* Properties of the ranking (checked under SpecRank) *)

\* x ranks before y: higher score, or equal score and smaller identifier
Before(x, y) == x.val > y.val \/ (x.val = y.val /\ LexLess(x.id, y.id))

Items(d) == {d[j] : j \in DOMAIN d}

\* C4: the list returned by top_n, and by the label sort, is in descending
\* score order with ties in strictly ascending identifier order, holds only
\* (node, score) pairs of the mapping, and every pair left out ranks after
\* every pair listed.
C4_RankingOrder ==
    pc \in {"ranked", "labelled"} =>
        /\ \A i, j \in DOMAIN ranked : i < j => Before(ranked[i], ranked[j])
        /\ Items(ranked) \subseteq Items(degree)
        /\ \A x \in Items(degree) \ Items(ranked) :
              \A y \in Items(ranked) : Before(y, x)

\* the path graph A-B-C-D: the top-2 degree ranking is [B:2, C:2]
C4_Witness ==
    /\ pc = "ranked"
    /\ degree = <<[id |-> D, val |-> 1], [id |-> C, val |-> 2],
                  [id |-> B, val |-> 2], [id |-> A, val |-> 1]>>
    /\ argv.top = 2
    /\ ranked = <<[id |-> B, val |-> 2], [id |-> C, val |-> 2]>>

----------------------------------------------------------------------------
(* Properties of whole runs (checked under Spec) *)

RankingTitles ==
    {"Top by Degree", "Top Degree Centrality", "Top Closeness Centrality",
     "Top Betweenness Centrality", "Top PageRank", "Top Eigenvector Centrality"}

\* C5 as stated: every ranking section lists exactly min(top, N) entries
\* (no entries when that number is below zero), for every integer --top.
C5_ExactlyMinTopN ==
    \A j \in DOMAIN out :
        out[j].line \in RankingTitles =>
            out[j].n = Max(0, Min(argv.top, Len(G.nodes)))

\* C6 as stated: a plotted run whose requested k exceeds the maximum core
\* number draws a non-empty core computed with that maximum, prints the
\* fallback notice and names the file after the maximum core number.
C6_FallbackToMaxCore ==
    (pc = "done" /\ argv.plot /\ argv.k > MaxCoreNumber(G)) =>
        /\ core.nodes # <<>>
        /\ core = KCoreGraph(G, MaxCoreNumber(G))
        /\ Printed("[Note] Requested k too high; using max k=")
        /\ (argv.prefix \o <<"_kcore">> \o IntStr(MaxCoreNumber(G)) \o <<".png">>)
              \in files

\* C7: when the input path does not exist at the check, the run ends there
\* with the one ERROR line naming the resolved absolute path and a non-zero
\* status; nothing is parsed, printed, computed or written.
C7_MissingFileExitsEarly ==
    (~fileExists /\ pc # "check") =>
        /\ pc = "exited"
        /\ status # 0 /\ status # -1
        /\ Len(err) = 1
        /\ err[1].tag = "ERROR: GraphML not found at"
        /\ err[1].path.abs
        /\ err[1].path.parts =
              (IF argv.graphml.abs THEN <<>> ELSE Cwd) \o argv.graphml.parts
        /\ events = <<"exists">>
        /\ Graw = EmptyGraph /\ G = EmptyGraph
        /\ out = <<>> /\ degree = <<>> /\ ranked = <<>>
        /\ files = {} /\ layouts = 0

\* a relative path that does not exist: the message holds cwd joined to it
C7_Witness ==
    /\ pc = "exited"
    /\ ~fileExists
    /\ argv.graphml = RelPath
    /\ err[1].path.parts = <<"home", "user", "marvel-network.graphml">>

BeforeEigenvector ==
    <<"=== Basic Statistics ===", "Nodes", "Edges", "Density", "Connected",
      "Top by Degree", "Top Degree Centrality", "Top Closeness Centrality",
      "Top Betweenness Centrality", "Top PageRank">>

PlotFailures == {"import matplotlib", "savefig full", "savefig kcore", "core_number"}

\* C8: once eigenvector centrality has failed, every earlier section is on
\* the output followed by the skip notice in place of the eigenvector
\* section, the failure itself has not ended the run, and the run goes on
\* to the plots (when requested) and ends normally unless a plot step fails.
C8_EigenvectorFailureRecovered ==
    eigFailed =>
        /\ Len(out) >= Len(BeforeEigenvector) + 1
        /\ \A j \in DOMAIN BeforeEigenvector : out[j].line = BeforeEigenvector[j]
        /\ out[Len(BeforeEigenvector) + 1].line = "[Eigenvector centrality skipped]"
        /\ ~Printed("Top Eigenvector Centrality")
        /\ pc \in (IF argv.plot THEN {"layout", "full", "kcore", "done", "aborted"}
                   ELSE {"done"})
        /\ pc = "aborted" => (Len(err) = 1 /\ err[1].what \in PlotFailures)
        /\ pc = "done" =>
              /\ status = 0
              /\ argv.plot => (Cardinality(files) = 2 /\ Len(out) = Len(BeforeEigenvector) + 3)

\* eigenvector centrality failed on a plotted run, which still wrote both
\* images and ended with status 0
C8_Witness ==
    /\ eigFailed
    /\ pc = "done"
    /\ argv.plot
    /\ status = 0
    /\ Cardinality(files) = 2

WroteLines == {j \in DOMAIN out : out[j].line = "Wrote"}

\* C9: image files are written only under --plot; a plotted run that ends
\* normally has written exactly {prefix}_full.png and {prefix}_kcore{k}.png,
\* k being the k the plotted core was computed with, and has printed each
\* name after saving it; a run without --plot writes nothing and computes
\* no layout.
C9_FilesIffPlot ==
    /\ ~argv.plot => (files = {} /\ layouts = 0 /\ WroteLines = {})
    /\ \A j \in WroteLines : out[j].name \in files
    /\ (pc = "done" /\ argv.plot) =>
          /\ files = {argv.prefix \o <<"_full.png">>,
                      argv.prefix \o <<"_kcore">> \o IntStr(args_k) \o <<".png">>}
          /\ Cardinality(files) = 2
          /\ core = KCoreGraph(G, args_k)
          /\ Cardinality(WroteLines) = 2
          /\ \E i, j \in WroteLines :
                /\ i < j
                /\ out[i].name = argv.prefix \o <<"_full.png">>
                /\ out[j].name = argv.prefix \o <<"_kcore">> \o IntStr(args_k) \o <<".png">>
          /\ layouts = 1

\* a plotted run with --k 3: two files, the second named ..._kcore3.png
C9_Witness ==
    /\ pc = "done"
    /\ argv.plot
    /\ argv.k = 3
    /\ files = {<<"marvel_network", "_full.png">>,
                <<"marvel_network", "_kcore", "3", ".png">>}

StepOrder ==
    <<"exists", "load", "simplify", "counts", "density", "connected", "degree",
      "deg_cent", "closeness", "betweenness", "pagerank", "eigenvector">>
    \o (IF argv.plot THEN <<"layout", "full", "kcore">> ELSE <<>>)

\* the step main() is at
StepAt ==
    CASE pc = "check" -> "exists"
      [] pc \in {"build", "simplify"} -> "simplify"
      [] OTHER -> pc

\* the step whose library call raised
FailedStep(what) ==
    CASE what = "read_graphml" -> "load"
      [] what = "is_connected" -> "connected"
      [] what = "pagerank" -> "pagerank"
      [] what = "import matplotlib" -> "layout"
      [] what = "savefig full" -> "full"
      [] what \in {"core_number", "savefig kcore"} -> "kcore"
      [] OTHER -> "none"

\* C10: the completed steps always form a prefix of the fixed order (the
\* plot steps only under --plot, one layout at most); a running program is
\* at the step that follows them; a failure of any step other than
\* eigenvector centrality leaves the run ended at that step; an ended run
\* takes no further step.
C10_FixedOrder ==
    /\ Len(events) <= Len(StepOrder)
    /\ \A j \in DOMAIN events : events[j] = StepOrder[j]
    /\ layouts <= 1
    /\ Running => (Len(events) < Len(StepOrder) /\ StepOrder[Len(events) + 1] = StepAt)
    /\ pc = "done" => events = StepOrder
    /\ pc = "aborted" =>
          /\ Len(err) = 1
          /\ Len(events) < Len(StepOrder)
          /\ StepOrder[Len(events) + 1] = FailedStep(err[1].what)
          /\ status = 1
    /\ ~Running => ~ENABLED Next

\* a plotted run that completed all fifteen steps
C10_Witness ==
    /\ pc = "done"
    /\ argv.plot
    /\ Len(events) = 15
    /\ layouts = 1

====
